---- MODULE Spec2Model ----
(***************************************************************************)
(* Verification model of the lexe privacy core:                            *)
(*   - pipeline/strategies.py   replacement strategies and replace_all     *)
(*   - pipeline/filters.py      normalize_text, entity filters             *)
(*   - pipeline/orchestrator.py process_document, process_batch            *)
(*   - cache/cache_manager.py   MemoryCache (L1), RedisCache (L2),         *)
(*                              CacheManager                               *)
(* Text is a sequence of one-character strings; offsets are 0-based and    *)
(* half-open as in the Python source.                                      *)
(***************************************************************************)
EXTENDS Integers, Sequences, FiniteSets, TLC

\* ------------------------------------------------------------------ bounds
\* process_document calls made on one orchestrator (document runs)
MaxDocs == 2
\* spans one detection run returns
MaxEntities == 2
\* length of a detected span, in characters
MaxSpanLen == 2
\* documents handed to one process_batch call
MaxBatch == 3

\* largest max_concurrent argument a caller passes to process_batch
MaxConcurrentArg == 2
\* last tick of the clock
MaxTime == 3
\* CacheManager.ttl_seconds of the modelled manager, in clock ticks
TtlSeconds == 2
\* CacheManager l1_max_size of the modelled manager
L1MaxSize == 1
\* largest max_size of a MemoryCache used on its own
MemMaxSize == 2
\* cache keys generated side by side
MaxKeys == 2
\* first-occurrence spans handed to one DeterministicReplacer
MaxSeq == 28
\* benchmark results handed to one select_winner call
MaxResults == 2
\* characters of a text handed to normalize_text on its own
MaxNormLen == 3
\* characters of a document handed to the recognizers' merge
MaxPos == 3
\* spans in each of the two lists handed to _merge_entities
MaxMerge == 2
\* leading characters of a fiscal code that vary
MaxCfVaried == 2
\* coroutines that use one CacheManager at the same time
MaxTasks == 2
\* CacheManager calls started in one run of concurrent use
MaxCalls == 3

\* ------------------------------------------------------- program constants
\* PrivacyConfig.max_concurrent_jobs
DefaultMaxConcurrent == 10
\* legal_pattern_matcher: characters of context taken on each side of a span
ContextChars == 50
\* WinnerSelector.__init__: latency_target_ms
LatencyTargetMs == 500

\* ----------------------------------------------------------- text helpers
\* Python s[a:b] for 0 <= a, 0 <= b: half-open and clipped to the length.
Slice(s, a, b) ==
    LET lo == IF a > Len(s) THEN Len(s) ELSE a
        hi == IF b > Len(s) THEN Len(s) ELSE b
    IN  IF hi <= lo THEN <<>> ELSE SubSeq(s, lo + 1, hi)

\* Python `needle in hay` on strings.
Contains(hay, needle) ==
    \E i \in 0..(Len(hay) - Len(needle)) : Slice(hay, i, i + Len(needle)) = needle

UpperLetters ==
    <<"A","B","C","D","E","F","G","H","I","J","K","L","M",
      "N","O","P","Q","R","S","T","U","V","W","X","Y","Z">>

LowerLetters ==
    <<"a","b","c","d","e","f","g","h","i","j","k","l","m",
      "n","o","p","q","r","s","t","u","v","w","x","y","z">>

DigitChars == <<"0","1","2","3","4","5","6","7","8","9">>

\* str.lower() on one character: ASCII capitals map to small letters; the
\* sharp s is already lower case and stays as it is.
LowerChar(c) ==
    IF \E i \in DOMAIN UpperLetters : UpperLetters[i] = c
    THEN LowerLetters[CHOOSE i \in DOMAIN UpperLetters : UpperLetters[i] = c]
    ELSE c

\* str.lower()
Lower(s) == [i \in 1..Len(s) |-> LowerChar(s[i])]

\* str(n) for a natural number
RECURSIVE Str(_)
Str(n) ==
    IF n < 10 THEN <<DigitChars[n + 1]>>
    ELSE Str(n \div 10) \o <<DigitChars[(n % 10) + 1]>>

WhitespaceChars == {" ", "\t", "\n"}

IsSpace(c) == c \in WhitespaceChars

\* ------------------------------------------------------ filters.normalize
\* unicodedata.normalize('NFC', text): a base letter followed by the
\* combining acute accent composes to the precomposed letter.
RECURSIVE NFC(_)
NFC(s) ==
    IF Len(s) < 2 THEN s
    ELSE IF s[1] = "e" /\ s[2] = "\\u0301"
         THEN <<"é">> \o NFC(Slice(s, 2, Len(s)))
         ELSE IF s[1] = "j" /\ s[2] = "\\u030C"
              THEN <<"ǰ">> \o NFC(Slice(s, 2, Len(s)))
              ELSE <<s[1]>> \o NFC(Tail(s))

\* re.sub(r'[ \t]+', ' ', text)
RECURSIVE CollapseBlanks(_)
CollapseBlanks(s) ==
    IF s = <<>> THEN <<>>
    ELSE IF s[1] \in {" ", "\t"}
         THEN IF Len(s) >= 2 /\ s[2] \in {" ", "\t"}
              THEN CollapseBlanks(Tail(s))
              ELSE <<" ">> \o CollapseBlanks(Tail(s))
         ELSE <<s[1]>> \o CollapseBlanks(Tail(s))

\* End (0-based, exclusive) of the maximal whitespace run that starts at i.
RECURSIVE SpaceRunEnd(_, _)
SpaceRunEnd(s, i) ==
    IF i < Len(s) /\ IsSpace(s[i + 1]) THEN SpaceRunEnd(s, i + 1) ELSE i

\* re.sub(r'\n\s+\n', '\n\n', text): leftmost, greedy, non-overlapping.  A
\* match at a newline runs to the last newline of the whitespace run after
\* it, provided at least one whitespace character lies in between.
RECURSIVE CollapseNewlines(_)
CollapseNewlines(s) ==
    IF s = <<>> THEN <<>>
    ELSE IF s[1] = "\n"
         THEN LET e    == SpaceRunEnd(s, 1)
                  ends == {j \in 3..e : s[j] = "\n"}
              IN  IF ends = {}
                  THEN <<s[1]>> \o CollapseNewlines(Tail(s))
                  ELSE LET last == CHOOSE j \in ends : \A k \in ends : k <= j
                       IN  <<"\n", "\n">> \o CollapseNewlines(Slice(s, last, Len(s)))
         ELSE <<s[1]>> \o CollapseNewlines(Tail(s))

\* str.strip()
RECURSIVE LStrip(_)
LStrip(s) == IF s # <<>> /\ IsSpace(s[1]) THEN LStrip(Tail(s)) ELSE s

RECURSIVE RStrip(_)
RStrip(s) ==
    IF s # <<>> /\ IsSpace(s[Len(s)]) THEN RStrip(Slice(s, 0, Len(s) - 1)) ELSE s

Strip(s) == RStrip(LStrip(s))

\* re.sub(r'\s+', ' ', text)
RECURSIVE CollapseWhitespace(_)
CollapseWhitespace(s) ==
    IF s = <<>> THEN <<>>
    ELSE IF IsSpace(s[1])
         THEN IF Len(s) >= 2 /\ IsSpace(s[2])
              THEN CollapseWhitespace(Tail(s))
              ELSE <<" ">> \o CollapseWhitespace(Tail(s))
         ELSE <<s[1]>> \o CollapseWhitespace(Tail(s))

\* normalize_text(text, lowercase, remove_extra_whitespace,
\* normalize_unicode, preserve_newlines)
normalize_text_with(text, opts) ==
    IF text = <<>> THEN text
    ELSE LET t1 == IF opts.normalize_unicode THEN NFC(text) ELSE text
             t2 == IF opts.remove_extra_whitespace
                   THEN IF opts.preserve_newlines
                        THEN CollapseNewlines(CollapseBlanks(t1))
                        ELSE CollapseWhitespace(t1)
                   ELSE t1
             t3 == IF opts.lowercase THEN Lower(t2) ELSE t2
         IN  Strip(t3)

\* The options of FilterConfig as it stands by default: lowercase=False,
\* remove_extra_whitespace=True, normalize_unicode=True, and
\* preserve_newlines=True, which the orchestrator never passes.
DefaultNormalizeOptions ==
    [lowercase |-> FALSE, remove_extra_whitespace |-> TRUE,
     normalize_unicode |-> TRUE, preserve_newlines |-> TRUE]

normalize_text(text) == normalize_text_with(text, DefaultNormalizeOptions)

\* ------------------------------------------------------- detected entities
\* EntityType members the recognizers of the model emit, by enum name.
Kinds == {"PERSON", "LOCATION"}

\* EntityType.value
TypeValue(type) ==
    IF type = "PERSON" THEN <<"P","E","R","S","O","N">>
    ELSE IF type = "ORGANIZATION" THEN <<"O","R","G">>
    ELSE <<"L","O","C">>

\* A span reported one character to the right of where its text stands.
EntityShifted(type, text, start, end) ==
    [type |-> type, text |-> text, start |-> start + 1, end |-> end + 1]

\* DetectedEntity(type, text, start, end)
Entity(type, text, start, end) ==
    [type |-> type, text |-> text, start |-> start, end |-> end]

\* ------------------------------------------------- replacement strategies
\* State of the strategy object built by _setup_replacement_strategy:
\* DeterministicReplacer.entity_map / entity_counters and
\* ConsistentReplacer.consistency_map.  Maps are functions whose domain is
\* the set of keys stored so far.
EmptyMap == [k \in {} |-> <<>>]

NewStrategy ==
    [entity_map |-> EmptyMap, entity_counters |-> EmptyMap,
     consistency_map |-> EmptyMap, use_letters_for_names |-> TRUE]

\* key = (entity.type, entity.text.lower())
MapKey(e) == <<e.type, Lower(e.text)>>

\* An index string that goes on past Z with the characters that follow it.
IndexStrPastZ(use_letters, type, index) ==
    IF use_letters /\ type \in {"PERSON", "ORGANIZATION"}
    THEN IF index <= 26 THEN <<UpperLetters[index]>> ELSE <<"[">>
    ELSE Str(index)

\* DeterministicReplacer: chr(64 + index) if index <= 26 else str(index),
\* for PERSON and ORGANIZATION when use_letters_for_names (the default);
\* str(index) for every other type.
IndexStr(use_letters, type, index) ==
    IF use_letters /\ type \in {"PERSON", "ORGANIZATION"} /\ index <= 26
    THEN <<UpperLetters[index]>>
    ELSE Str(index)

\* format_template.format(type=..., index=...) with '{type}_{index}'
DeterministicFormat(use_letters, type, index) ==
    TypeValue(type) \o <<"_">> \o IndexStr(use_letters, type, index)

\* DeterministicReplacer.replace: [rep, st]
DeterministicReplace(st, e) ==
    LET key == MapKey(e) IN
    IF key \in DOMAIN st.entity_map
    THEN [rep |-> st.entity_map[key], st |-> st]
    ELSE LET old   == IF e.type \in DOMAIN st.entity_counters
                      THEN st.entity_counters[e.type] ELSE 0
             index == old + 1
             rep   == DeterministicFormat(st.use_letters_for_names, e.type, index)
         IN  [rep |-> rep,
              st  |-> [st EXCEPT
                         !.entity_counters = (e.type :> index) @@ st.entity_counters,
                         !.entity_map = (key :> rep) @@ st.entity_map]]

\* RedactionReplacer.italian_labels
ItalianLabel(type) ==
    IF type = "PERSON" THEN <<"N","O","M","E">>
    ELSE IF type = "LOCATION" THEN <<"L","U","O","G","O">>
    ELSE TypeValue(type)

\* RedactionReplacer.replace with the default '[{type}]' template: the
\* factory drops the configured format_template, so the default applies.
RedactionReplace(st, e) ==
    [rep |-> <<"[">> \o ItalianLabel(e.type) \o <<"]">>, st |-> st]

\* The base strategy create_strategy builds for a valid name.
BaseReplace(name, st, e) ==
    IF name = "deterministic" THEN DeterministicReplace(st, e)
    ELSE RedactionReplace(st, e)

\* ConsistentReplacer.replace: [rep, st]
ConsistentReplace(name, st, e) ==
    LET key == MapKey(e) IN
    IF key \in DOMAIN st.consistency_map
    THEN [rep |-> st.consistency_map[key], st |-> st]
    ELSE LET r == BaseReplace(name, st, e)
         IN  [rep |-> r.rep,
              st  |-> [r.st EXCEPT
                         !.consistency_map = (key :> r.rep) @@ r.st.consistency_map]]

\* self.replacement_strategy.replace(...) for the configured strategy
StrategyReplace(cfg, st, e) ==
    IF cfg.consistent THEN ConsistentReplace(cfg.strategy, st, e)
    ELSE BaseReplace(cfg.strategy, st, e)

\* sorted(entities, key=lambda e: e.start, reverse=True): stable, so spans
\* with equal start keep the order of the input list.
RECURSIVE InsertByStartDesc(_, _)
InsertByStartDesc(sorted, e) ==
    IF sorted = <<>> THEN <<e>>
    ELSE IF Head(sorted).start >= e.start
         THEN <<Head(sorted)>> \o InsertByStartDesc(Tail(sorted), e)
         ELSE <<e>> \o sorted

RECURSIVE SortByStartDesc(_)
SortByStartDesc(entities) ==
    IF entities = <<>> THEN <<>>
    ELSE InsertByStartDesc(SortByStartDesc(Slice(entities, 0, Len(entities) - 1)),
                           entities[Len(entities)])

\* The loop of replace_all over the sorted spans.  acc = [text, st, replaced];
\* replaced lists, in processing order, each span with the placeholder it got.
RECURSIVE ReplaceLoop(_, _, _)
ReplaceLoop(cfg, acc, sorted) ==
    IF sorted = <<>> THEN acc
    ELSE LET e == Head(sorted)
             r == StrategyReplace(cfg, acc.st, e)
             t == Slice(acc.text, 0, e.start) \o r.rep
                  \o Slice(acc.text, e.end, Len(acc.text))
         IN  ReplaceLoop(cfg,
                         [text |-> t, st |-> r.st,
                          replaced |-> Append(acc.replaced, [entity |-> e, rep |-> r.rep])],
                         Tail(sorted))

\* ReplacementStrategy.replace_all: no reset of the strategy state is made.
replace_all(cfg, st, text, entities) ==
    ReplaceLoop(cfg, [text |-> text, st |-> st, replaced |-> <<>>],
                SortByStartDesc(entities))

\* ------------------------------------------------------- entity filters
\* Types validate_entities checks with a checksum or a pattern.
ValidatedKinds == {"FISCAL_CODE", "VAT_NUMBER", "EMAIL", "PHONE"}

\* validate_entities: a span of a type without validator is kept.  The
\* recognizers of the model emit no span of a validated type.
validate_entities(entities) ==
    SelectSeq(entities, LAMBDA e : e.type \notin ValidatedKinds)

\* LEGAL_FORMULAS: the patterns that are plain phrases, in lower case.
LEGAL_FORMULAS ==
    { <<"v","i","s","t","o"," ","i","l">>,
      <<"n","e","l"," ","r","i","s","p","e","t","t","o"," ","d","i">>,
      <<"c","o","n","s","i","d","e","r","a","t","o"," ","c","h","e">> }

\* legal_pattern_matcher: is the span inside the window of a legal formula
InFormula(text, e) ==
    LET context_start == IF e.start - ContextChars > 0 THEN e.start - ContextChars ELSE 0
        context_end   == IF e.end + ContextChars < Len(text)
                         THEN e.end + ContextChars ELSE Len(text)
        context       == Lower(Slice(text, context_start, context_end))
    IN  \E pattern \in LEGAL_FORMULAS : Contains(context, pattern)

legal_pattern_matcher(text, entities) ==
    SelectSeq(entities, LAMBDA e : ~InFormula(text, e))

\* FilterChain.apply(text, entities) as configured by _setup_filters: the
\* text filter runs again on the text it is given, and the context filter
\* runs on that result only when it is not empty.  sensitivity_scorer only
\* annotates metadata.
apply_entity_filters(text, entities) ==
    LET filtered_text == normalize_text(text)
        validated     == validate_entities(entities)
    IN  IF filtered_text # <<>>
        THEN legal_pattern_matcher(filtered_text, validated)
        ELSE validated

\* ------------------------------------------------------------- detection
\* What PresidioEngine.detect_entities can return for a text: a list of
\* distinct spans, each with text == text[start:end] and 0 <= start < end <=
\* len(text).  Which spans the analyzer reports is its own business; the
\* model takes spans that neither begin nor end with whitespace and lists
\* them by ascending start, spans of equal start in either order.
AllSpans(text) ==
    { Entity(k, Slice(text, a, b), a, b) :
        k \in Kinds, a \in 0..(Len(text) - 1), b \in 1..Len(text) }

Candidates(text) ==
    { e \in AllSpans(text) :
        /\ e.start < e.end
        /\ e.end - e.start <= MaxSpanLen
        /\ ~IsSpace(e.text[1])
        /\ ~IsSpace(e.text[Len(e.text)]) }

Injective(f) == \A i, j \in DOMAIN f : f[i] = f[j] => i = j

AscendingStart(l) == \A i, j \in DOMAIN l : i < j => l[i].start <= l[j].start

EntityLists(text) ==
    UNION { { l \in [1..n -> Candidates(text)] : Injective(l) /\ AscendingStart(l) } :
            n \in 0..MaxEntities }

\* ----------------------------------------------------- process_document
\* task is bookkeeping of the model: the index of the call that made the result.
\* primary is what the primary engine did for the call: "none" (not run),
\* "spans", "empty" or "failed".  fallback_triggered is the metadata entry of
\* that name; process_document never writes it.
NoResult ==
    [kind |-> "none", task |-> 0, original_text |-> <<>>, anonymized_text |-> <<>>,
     entities |-> <<>>, success |-> FALSE, replaced |-> <<>>,
     primary |-> "none", fallback_triggered |-> FALSE]

\* An exception that left the coroutine instead of a PipelineResult.
RaisedException == [NoResult EXCEPT !.kind = "exception"]

\* The except branch of process_document.
FailureResult(task, text) ==
    [kind |-> "result", task |-> task, original_text |-> text, anonymized_text |-> text,
     entities |-> <<>>, success |-> FALSE, replaced |-> <<>>,
     primary |-> "failed", fallback_triggered |-> FALSE]

\* process_document from the entity filters to the PipelineResult, given the
\* spans detection returned on filtered_text: [result, st].
Rewrite(cfg, st, task, text, filtered_text, entities) ==
    LET filtered_entities == apply_entity_filters(filtered_text, entities)
        r == IF filtered_entities # <<>>
             THEN replace_all(cfg, st, filtered_text, filtered_entities)
             ELSE [text |-> filtered_text, st |-> st, replaced |-> <<>>]
    IN  [result |-> [kind |-> "result", task |-> task, original_text |-> text,
                     anonymized_text |-> r.text, entities |-> filtered_entities,
                     success |-> TRUE, replaced |-> r.replaced,
                     primary |-> "none", fallback_triggered |-> FALSE],
         st |-> r.st]

\* ------------------------------------------------------ cache: key making
\* Key material is written as strings.  The digests are the values hashlib
\* gives on the inputs of the model.

\* Configuration dictionaries, each value in its JSON spelling.
ConfigDicts ==
    { [confidence_threshold |-> "0.7", seed |-> "1"],
      [confidence_threshold |-> "0.7", seed |-> "36667"],
      [confidence_threshold |-> "0.7", seed |-> "50201"] }

\* json.dumps(config_dict, sort_keys=True)
ConfigJson(config_dict) ==
    "{\"confidence_threshold\": " \o config_dict.confidence_threshold
    \o ", \"seed\": " \o config_dict.seed \o "}"

\* hashlib.md5(s.encode()).hexdigest()[:8]
Md5Prefix(json) ==
    CASE json = "{\"confidence_threshold\": 0.7, \"seed\": 1}"     -> "d3f5b6cd"
      [] json = "{\"confidence_threshold\": 0.7, \"seed\": 36667}" -> "fb1c01b4"
      [] json = "{\"confidence_threshold\": 0.7, \"seed\": 50201}" -> "fb1c01b4"

hash_config(config_dict) == Md5Prefix(ConfigJson(config_dict))

KeyTexts == {"doc", "doc|spacy"}

EngineNames == {"spacy", "presidio", "spacy|presidio"}

\* hashlib.sha256(s.encode()).hexdigest()[:16]
Sha256Prefix(key_data) ==
    CASE key_data = "doc|presidio|d3f5b6cd"             -> "0784283ab816e4e3"
      [] key_data = "doc|presidio|fb1c01b4"             -> "5f2409d645864d5f"
      [] key_data = "doc|spacy|d3f5b6cd"                -> "67405ff295785f78"
      [] key_data = "doc|spacy|fb1c01b4"                -> "c1a372015cdd6958"
      [] key_data = "doc|spacy|presidio|d3f5b6cd"       -> "129fc491c6686c2d"
      [] key_data = "doc|spacy|presidio|fb1c01b4"       -> "5660f4ff74eac46f"
      [] key_data = "doc|spacy|spacy|d3f5b6cd"          -> "4a118fb9c8b22d6c"
      [] key_data = "doc|spacy|spacy|fb1c01b4"          -> "468b91d8d0f562ae"
      [] key_data = "doc|spacy|spacy|presidio|d3f5b6cd" -> "71022d17053152f5"
      [] key_data = "doc|spacy|spacy|presidio|fb1c01b4" -> "786464bceda2a032"

generate_cache_key(text, engine_name, config_hash) ==
    LET key_data == text \o "|" \o engine_name \o "|" \o config_hash
    IN  "privacy:doc:" \o Sha256Prefix(key_data)

\* ------------------------------------------------------- cache: L1 tier
\* Cache keys and values of the model.  A value is a JSON object.
Keys == {"k1", "k2"}

Values == {"v1", "v2"}

\* Absence: Python None.
None == "None"

\* MemoryCache state: cache is the LRUCache as a sequence of [key, value]
\* from least to most recently used; expiry is the expiry dict.
EmptyL1 == [cache |-> <<>>, expiry |-> EmptyMap]

LRUKeys(cache) == { cache[i].key : i \in DOMAIN cache }

LRUValue(cache, key) ==
    LET i == CHOOSE i \in DOMAIN cache : cache[i].key = key IN cache[i].value

\* LRUCache.__delitem__
LRUDelete(cache, key) == SelectSeq(cache, LAMBDA x : x.key # key)

\* A lookup that leaves the order of use as it is.
LRUNoTouch(cache, key) == cache

\* LRUCache.__getitem__: the key becomes the most recently used.
LRUTouch(cache, key) ==
    Append(LRUDelete(cache, key), [key |-> key, value |-> LRUValue(cache, key)])

\* LRUCache.popitem repeated while the cache is full.
RECURSIVE LRUMakeRoom(_, _)
LRUMakeRoom(cache, maxsize) ==
    IF Len(cache) >= maxsize /\ cache # <<>>
    THEN LRUMakeRoom(Tail(cache), maxsize)
    ELSE cache

\* LRUCache.__setitem__: a new key evicts from the least recently used end
\* until it fits; the key written becomes the most recently used.
LRUSetItem(cache, key, value, maxsize) ==
    IF key \in LRUKeys(cache)
    THEN Append(LRUDelete(cache, key), [key |-> key, value |-> value])
    ELSE Append(LRUMakeRoom(cache, maxsize), [key |-> key, value |-> value])

MapRemove(m, key) == [k \in DOMAIN m \ {key} |-> m[k]]

\* MemoryCache.get: [value, l1]
L1Get(l1, key, now_) ==
    IF key \notin LRUKeys(l1.cache)
    THEN [value |-> None, l1 |-> l1]
    ELSE IF key \in DOMAIN l1.expiry /\ now_ > l1.expiry[key]
         THEN [value |-> None,
               l1 |-> [cache |-> LRUDelete(l1.cache, key),
                       expiry |-> MapRemove(l1.expiry, key)]]
         ELSE [value |-> LRUValue(l1.cache, key),
               l1 |-> [l1 EXCEPT !.cache = LRUTouch(l1.cache, key)]]

\* A set that leaves the value of a key already cached as it is.
L1SetKeepsOldValue(l1, key, value, now_, ttl, maxsize) ==
    IF key \in LRUKeys(l1.cache)
    THEN [l1 EXCEPT !.expiry = (key :> (now_ + ttl)) @@ l1.expiry]
    ELSE [cache  |-> LRUSetItem(l1.cache, key, value, maxsize),
          expiry |-> (key :> (now_ + ttl)) @@ l1.expiry]

\* MemoryCache.set
L1Set(l1, key, value, now_, ttl, maxsize) ==
    [cache  |-> LRUSetItem(l1.cache, key, value, maxsize),
     expiry |-> (key :> (now_ + ttl)) @@ l1.expiry]

\* An invalidate that drops the expiry entry and keeps the cached value.
L1InvalidateExpiryOnly(l1, key) ==
    [l1 EXCEPT !.expiry = MapRemove(l1.expiry, key)]

\* MemoryCache.invalidate
L1Invalidate(l1, key) ==
    [cache |-> LRUDelete(l1.cache, key), expiry |-> MapRemove(l1.expiry, key)]

\* MemoryCache.clear
L1Clear(l1) == EmptyL1

\* ------------------------------------------------------- cache: L2 tier
\* json.dumps / json.loads of a JSON object
JsonDumps(value) == <<"json", value>>

JsonLoads(value_json) == value_json[2]

\* The store behind RedisCache: key -> [value_json, expires].  A key is
\* served until its expiry time is reached.
RedisLive(store, key, now_) == key \in DOMAIN store /\ now_ < store[key].expires

\* redis.get; the caller decides whether the round trip worked
RedisGet(store, key, now_) ==
    IF RedisLive(store, key, now_) THEN JsonLoads(store[key].value_json) ELSE None

\* redis.setex(key, ttl_seconds, value_json)
RedisSetex(store, key, ttl, value, now_) ==
    (key :> [value_json |-> JsonDumps(value), expires |-> now_ + ttl]) @@ store

\* redis.delete(key)
RedisDelete(store, key) == MapRemove(store, key)

\* ------------------------------------------------------------ the state
VARIABLES
    config,                \* PrivacyConfig.replacement: [strategy, consistent]
    initialized,           \* PipelineOrchestrator.initialized
    primary_engine,        \* "presidio", or "none" when loading failed
    replacement_strategy,  \* state of the one strategy object of the orchestrator
    api,                   \* entry point the caller uses: "document" or "batch"
    phase,                 \* of process_batch: idle, running, returned, raised
    documents,             \* the documents of the calls in flight
    pc,                    \* per call: pending, detecting, done
    results,               \* per call: what the coroutine produced
    max_concurrent,        \* effective max_concurrent of the batch
    semaphore,             \* free permits of the batch semaphore
    batch_result,          \* BatchResult returned by process_batch
    calls,                 \* process_document calls made so far
    detect_runs            \* detection runs per normalized text

orch_vars ==
    <<config, initialized, primary_engine, replacement_strategy, api, phase,
      documents, pc, results, max_concurrent, semaphore, batch_result, calls,
      detect_runs>>

VARIABLES
    cache_enabled,         \* CacheManager.enabled
    l1,                    \* CacheManager.l1: [cache, expiry]
    l2_connected,          \* CacheManager.l2.connected
    redis,                 \* the Redis store behind CacheManager.l2
    now,                   \* the clock read by datetime.now() and by Redis
    last_op,               \* the cache operation completed last, and its outcome
    inval,                 \* per key: how the last invalidate since a set ended
    set_at                 \* per key: the time of the last set call

cache_vars ==
    <<cache_enabled, l1, l2_connected, redis, now, last_op, inval, set_at>>

VARIABLES
    max_size,              \* MemoryCache.max_size of a MemoryCache used on its own
    used,                  \* keys that MemoryCache holds, least recently used first
    mem_op                 \* the MemoryCache operation completed last

mem_vars == <<max_size, used, mem_op>>

VARIABLES
    fingerprints           \* the cache keys generated so far, with their inputs

key_vars == <<fingerprints>>

VARIABLES
    firsts,                \* per kind: first-occurrence spans replaced so far
    seq_op                 \* the DeterministicReplacer.replace call made last

seq_vars == <<firsts, seq_op>>

VARIABLES
    selector,              \* WinnerSelector: "none", "ready" or "rejected"
    weights,               \* WinnerSelector.weights, in hundredths
    bench_results,         \* the list handed to select_winner
    winner                 \* what select_winner returned

sel_vars == <<selector, weights, bench_results, winner>>

\* replacement_strategy is the one orchestrator variable a strategy object
\* used on its own changes.
orch_rest ==
    <<config, initialized, primary_engine, api, phase, documents, pc, results,
      max_concurrent, semaphore, batch_result, calls, detect_runs>>

VARIABLES
    norm_text,             \* the text handed to normalize_text
    norm_opts,             \* the options of the calls
    norm_out               \* the outputs of the successive calls

norm_vars == <<norm_text, norm_opts, norm_out>>

VARIABLES
    merge_existing,        \* _merge_entities: the existing argument
    merge_new,             \* _merge_entities: the new argument
    merge_out,             \* what it returned
    merge_done             \* whether it has been called

merge_vars == <<merge_existing, merge_new, merge_out, merge_done>>

VARIABLES
    cf_op                  \* a fiscal code put to the recognizer and the filter

cf_vars == <<cf_op>>

VARIABLES
    tasks,                 \* per coroutine: the CacheManager call it is in
    started                \* CacheManager calls started so far

task_vars == <<tasks, started>>

\* The state of the components exercised on their own.
unit_vars == <<norm_vars, merge_vars, cf_vars, task_vars>>

\* Everything outside the orchestrator and the cache manager.
aux_vars == <<mem_vars, key_vars, seq_vars, sel_vars, unit_vars>>

\* Everything but the state of normalize_text exercised on its own.
not_norm ==
    <<orch_vars, cache_vars, mem_vars, key_vars, seq_vars, sel_vars, merge_vars,
      cf_vars, task_vars>>

\* Everything but the state of _merge_entities exercised on its own.
not_merge ==
    <<orch_vars, cache_vars, mem_vars, key_vars, seq_vars, sel_vars, norm_vars,
      cf_vars, task_vars>>

\* Everything but the state of the fiscal-code validators.
not_cf ==
    <<orch_vars, cache_vars, mem_vars, key_vars, seq_vars, sel_vars, norm_vars,
      merge_vars, task_vars>>

\* What coroutines sharing a CacheManager leave alone: everything but the
\* two tiers and the coroutines themselves.
not_tasks ==
    <<orch_vars, cache_enabled, l2_connected, now, last_op, inval, set_at,
      mem_vars, key_vars, seq_vars, sel_vars, norm_vars, merge_vars, cf_vars>>

\* Names create_strategy accepts; any other raises ValueError.
ValidStrategyNames == {"deterministic", "synthetic", "redaction", "hash"}

\* Replacement configurations of the model.  'redact' is the value the
\* comment of ReplacementConfig.default_strategy lists for redaction.
Configs ==
    { [strategy |-> "deterministic", consistent |-> TRUE],
      [strategy |-> "deterministic", consistent |-> FALSE],
      [strategy |-> "redaction", consistent |-> TRUE],
      [strategy |-> "redact", consistent |-> TRUE] }

\* Input texts of the document runs.
Texts ==
    { <<>>,
      <<"a", "a">>,
      <<"a", " ", " ", "A">>,
      <<"ß", "s", "s">>,
      <<"v","i","s","t","o"," ","i","l"," ","a">> }

Doc(text) == [has_text |-> TRUE, text |-> text]

\* Documents of a batch: well-formed ones and one without the 'text' key.
BatchDocs == { Doc(<<"a">>), Doc(<<"b">>), [has_text |-> FALSE, text |-> <<>>] }

NoBatchResult ==
    [results |-> <<>>, total_documents |-> 0, successful |-> 0, failed |-> 0]

\* What is recorded of the cache operation completed last: the call, what it
\* returned (value) or whether it raised, and for a get what each tier held
\* when it was asked.
NoOp == [op |-> "none", key |-> None, value |-> None, time |-> 0,
         expect |-> None, inval |-> "no", raised |-> FALSE, l2_error |-> FALSE,
         l1_value |-> None, l2_asked |-> FALSE, l2_value |-> None]

\* set_at of a key no set was called for
NeverSet == -1

\* CacheManager.__init__: both tiers empty, L2 not connected.
InitCache(enabled_choices) ==
    /\ cache_enabled \in enabled_choices
    /\ l1 = EmptyL1
    /\ l2_connected = FALSE
    /\ redis = EmptyMap
    /\ now = 0
    /\ last_op = NoOp
    /\ inval = [k \in Keys |-> "no"]
    /\ set_at = [k \in Keys |-> NeverSet]

\* Keys handed to a MemoryCache used on its own.
MemKeys == {"k1", "k2", "k3"}

NoMemOp == [op |-> "none", key |-> None, full |-> FALSE, lru |-> None,
            evicted |-> {}]

\* MemoryCache.__init__
InitMem(sizes) ==
    /\ max_size \in sizes
    /\ used = <<>>
    /\ mem_op = NoMemOp

InitKeys == fingerprints = <<>>

\* Kinds of the spans handed to a strategy object used on its own.
SeqKinds == {"PERSON", "ORGANIZATION", "LOCATION"}

NoSeqOp == [op |-> "none", type |-> "PERSON", ordinal |-> 0, rep |-> <<>>,
            first |-> FALSE]

InitSeq ==
    /\ firsts = [k \in SeqKinds |-> 0]
    /\ seq_op = NoSeqOp

NoWeights == [f1_score |-> 0, p95_latency |-> 0, precision |-> 0, recall |-> 0]

\* No WinnerSelector has been built.
InitSel ==
    /\ selector = "none"
    /\ weights = NoWeights
    /\ bench_results = <<>>
    /\ winner = None

NormalizeOptions ==
    [lowercase : BOOLEAN, remove_extra_whitespace : BOOLEAN,
     normalize_unicode : BOOLEAN, preserve_newlines : BOOLEAN]

\* Characters of the texts normalize_text is given on its own.
NormChars == {"a", "J", "\\u030C", " ", "\t", "\n"}

NormTexts == UNION { [1..n -> NormChars] : n \in 0..MaxNormLen }

\* normalize_text not called yet, on the default text and options
IdleNorm ==
    /\ norm_text = <<>>
    /\ norm_opts = DefaultNormalizeOptions
    /\ norm_out = <<>>

\* _merge_entities not called yet
IdleMerge ==
    /\ merge_existing = <<>>
    /\ merge_new = <<>>
    /\ merge_out = <<>>
    /\ merge_done = FALSE

NoCfOp == [done |-> FALSE, text |-> <<>>, emitted |-> FALSE, kept |-> FALSE]

\* no fiscal code validated yet
IdleCf == cf_op = NoCfOp

\* A coroutine that is in no CacheManager call.  pc is "idle", "l2_wait"
\* (suspended in the await of the Redis command, the server has not run it),
\* "l2_replied" (still suspended, the server has run it), "done" or
\* "cancelled".  before_l1 and before_l2 are what the tiers held for the key
\* when the call began; overlapped and raced record which calls ran beside it.
IdleTask ==
    [op |-> "none", key |-> None, value |-> None, pc |-> "idle", reply |-> None,
     returned |-> None, before_l1 |-> None, before_l2 |-> None,
     overlapped |-> FALSE, raced |-> "no"]

IdleTasks ==
    /\ tasks = [t \in 1..MaxTasks |-> IdleTask]
    /\ started = 0

InitUnits == IdleNorm /\ IdleMerge /\ IdleCf /\ IdleTasks

InitAux == InitMem({L1MaxSize}) /\ InitKeys /\ InitSeq /\ InitSel /\ InitUnits

InitOrch(entry, cfgs) ==
    /\ config \in cfgs
    /\ initialized = FALSE
    /\ primary_engine = "none"
    /\ replacement_strategy = NewStrategy
    /\ api = entry
    /\ phase = "idle"
    /\ documents = <<>>
    /\ pc = <<>>
    /\ results = <<>>
    /\ max_concurrent = 0
    /\ semaphore = 0
    /\ batch_result = NoBatchResult
    /\ calls = 0
    /\ detect_runs = EmptyMap

\* initialize() raises when _setup_replacement_strategy does.
InitializeRaises == ~initialized /\ config.strategy \notin ValidStrategyNames

\* Engines _load_engines can leave in primary_engine.
EnginesAfterInit == IF initialized THEN {primary_engine} ELSE {"presidio", "none"}

\* Strategy object after initialize().
StrategyAfterInit == IF initialized THEN replacement_strategy ELSE NewStrategy

CountRun(runs, text) ==
    (text :> (IF text \in DOMAIN runs THEN runs[text] + 1 ELSE 1)) @@ runs

\* process_document(text, ...) called directly, up to its first suspension:
\* initialize when needed, then context, text filters and the hand-over to
\* the engine thread.  Without an engine the call runs to its result.
ProcessDocument(text) ==
    /\ api = "document"
    /\ calls < MaxDocs
    /\ \A i \in DOMAIN pc : pc[i] = "done"
    /\ calls' = calls + 1
    /\ documents' = <<Doc(text)>>
    /\ IF InitializeRaises
       THEN /\ pc' = <<"done">>
            /\ results' = <<RaisedException>>
            /\ UNCHANGED <<initialized, primary_engine, replacement_strategy>>
       ELSE \E engine \in EnginesAfterInit :
            /\ initialized' = TRUE
            /\ primary_engine' = engine
            /\ IF engine = "presidio"
               THEN /\ pc' = <<"detecting">>
                    /\ results' = <<NoResult>>
                    /\ replacement_strategy' = StrategyAfterInit
               ELSE LET r == Rewrite(config, StrategyAfterInit, 1, text,
                                     normalize_text(text), <<>>)
                    IN  /\ pc' = <<"done">>
                        /\ results' = <<r.result>>
                        /\ replacement_strategy' = r.st
    /\ UNCHANGED cache_vars
    /\ UNCHANGED aux_vars
    /\ UNCHANGED <<config, api, phase, max_concurrent, semaphore, batch_result,
                   detect_runs>>

\* What primary_engine.detect_entities did: raised, or returned the spans.
Outcome(ok, entities) ==
    IF ~ok THEN "failed" ELSE IF entities = <<>> THEN "empty" ELSE "spans"

\* The rest of process_document for call i, once the engine thread answers:
\* entity filters, replace_all, PipelineResult; or the except branch when
\* detection raised.  In a batch the semaphore is released on the way out.
Detect(i) ==
    /\ i \in DOMAIN pc
    /\ pc[i] = "detecting"
    /\ LET text          == documents[i].text
           filtered_text == normalize_text(text)
       IN  /\ \E ok \in BOOLEAN :
                \E entities \in (IF ok THEN EntityLists(filtered_text) ELSE {<<>>}) :
                  LET r == IF ok
                           THEN Rewrite(config, replacement_strategy, i, text,
                                        filtered_text, entities)
                           ELSE [result |-> FailureResult(i, text),
                                 st |-> replacement_strategy]
                  IN  /\ results' = [results EXCEPT ![i] =
                                       [r.result EXCEPT !.primary = Outcome(ok, entities)]]
                      /\ replacement_strategy' = r.st
           /\ detect_runs' = CountRun(detect_runs, filtered_text)
    /\ pc' = [pc EXCEPT ![i] = "done"]
    /\ semaphore' = IF api = "batch" THEN semaphore + 1 ELSE semaphore
    /\ UNCHANGED cache_vars
    /\ UNCHANGED aux_vars
    /\ UNCHANGED <<config, initialized, primary_engine, api, phase, documents,
                   max_concurrent, batch_result, calls>>

\* A semaphore whose acquire never waits.
SemaphoreNeverWaits(permits) == TRUE

\* asyncio.Semaphore: acquire passes without waiting while permits are left.
SemaphoreFree(permits) == permits > 0

\* process_batch(documents, user_id, max_concurrent) up to gather: initialize
\* when needed, make the semaphore, create one task per document.
ProcessBatch(docs, mc) ==
    /\ api = "batch"
    /\ phase = "idle"
    /\ documents' = docs
    /\ IF InitializeRaises
       THEN /\ phase' = "raised"
            /\ UNCHANGED <<initialized, primary_engine, replacement_strategy, pc,
                           results, max_concurrent, semaphore>>
       ELSE \E engine \in EnginesAfterInit :
            /\ initialized' = TRUE
            /\ primary_engine' = engine
            /\ replacement_strategy' = StrategyAfterInit
            /\ phase' = "running"
            /\ max_concurrent' = IF mc = 0 THEN DefaultMaxConcurrent ELSE mc
            /\ semaphore' = max_concurrent'
            /\ pc' = [i \in 1..Len(docs) |-> "pending"]
            /\ results' = [i \in 1..Len(docs) |-> NoResult]
    /\ UNCHANGED cache_vars
    /\ UNCHANGED aux_vars
    /\ UNCHANGED <<config, api, batch_result, calls, detect_runs>>

\* process_with_semaphore(doc) of task i from the acquire to the first
\* suspension inside process_document.  Waiters are served in task order.
\* A document without 'text' raises KeyError inside the async with block.
Enter(i) ==
    /\ api = "batch"
    /\ phase = "running"
    /\ i \in DOMAIN pc
    /\ pc[i] = "pending"
    /\ \A j \in 1..(i - 1) : pc[j] # "pending"
    /\ SemaphoreFree(semaphore)
    /\ IF ~documents[i].has_text
       THEN /\ pc' = [pc EXCEPT ![i] = "done"]
            /\ results' = [results EXCEPT ![i] = [RaisedException EXCEPT !.task = i]]
            /\ UNCHANGED <<semaphore, replacement_strategy>>
       ELSE IF primary_engine = "presidio"
            THEN /\ pc' = [pc EXCEPT ![i] = "detecting"]
                 /\ semaphore' = semaphore - 1
                 /\ UNCHANGED <<results, replacement_strategy>>
            ELSE LET r == Rewrite(config, replacement_strategy, i, documents[i].text,
                                  normalize_text(documents[i].text), <<>>)
                 IN  /\ pc' = [pc EXCEPT ![i] = "done"]
                     /\ results' = [results EXCEPT ![i] = r.result]
                     /\ replacement_strategy' = r.st
                     /\ UNCHANGED semaphore
    /\ UNCHANGED cache_vars
    /\ UNCHANGED aux_vars
    /\ UNCHANGED <<config, initialized, primary_engine, api, phase, documents,
                   max_concurrent, batch_result, calls, detect_runs>>

\* The loop over the gathered results and the BatchResult built from it: an
\* exception is counted as failed and not appended to all_results.
BuildBatchResult(docs, gathered) ==
    [results         |-> SelectSeq(gathered, LAMBDA r : r.kind = "result"),
     total_documents |-> Len(docs),
     successful      |-> Len(SelectSeq(gathered,
                                       LAMBDA r : r.kind = "result" /\ r.success)),
     failed          |-> Len(SelectSeq(gathered, LAMBDA r : r.kind = "exception"))
                         + Len(SelectSeq(gathered,
                                         LAMBDA r : r.kind = "result" /\ ~r.success))]

\* gather returns once every task is done; process_batch returns its result.
Collect ==
    /\ api = "batch"
    /\ phase = "running"
    /\ \A i \in DOMAIN pc : pc[i] = "done"
    /\ batch_result' = BuildBatchResult(documents, results)
    /\ phase' = "returned"
    /\ UNCHANGED cache_vars
    /\ UNCHANGED aux_vars
    /\ UNCHANGED <<config, initialized, primary_engine, replacement_strategy, api,
                   documents, pc, results, max_concurrent, semaphore, calls,
                   detect_runs>>

\* ---------------------------------------------------------- cache actions
\* The cache operations run one after another.  An L2 round trip either
\* works or raises inside the RedisCache method, which logs and returns.
\* The hit and miss counters of CacheManager.stats are not modelled.

\* A round trip that fails raises inside the RedisCache method.  What leaves
\* the method, given whether the round trip worked.
L2RaisesOnError(ok) == ~ok

\* except Exception in connect, get, set, invalidate and clear_pattern: the
\* error is logged and the method returns; nothing is raised to the caller.
L2Raises(ok) == FALSE

\* CacheManager.initialize -> RedisCache.connect
CacheInitialize ==
    /\ ~l2_connected
    /\ IF cache_enabled
       THEN \E ok \in BOOLEAN :
              /\ l2_connected' = ok
              /\ last_op' = [NoOp EXCEPT !.op = "initialize", !.l2_error = ~ok,
                                         !.raised = L2Raises(ok)]
       ELSE /\ l2_connected' = l2_connected
            /\ last_op' = [NoOp EXCEPT !.op = "initialize"]
    /\ UNCHANGED <<cache_enabled, l1, redis, now, inval, set_at>>
    /\ UNCHANGED orch_vars
    /\ UNCHANGED aux_vars

\* RedisCache.set
L2Set(store, key, value, ok) ==
    IF l2_connected /\ ok
    THEN RedisSetex(store, key, TtlSeconds, value, now)
    ELSE store

SetDone(key, value, ok) ==
    [NoOp EXCEPT !.op = "set", !.key = key, !.value = value, !.time = now,
                 !.l2_error = cache_enabled /\ l2_connected /\ ~ok,
                 !.raised = cache_enabled /\ l2_connected /\ L2Raises(ok)]

\* CacheManager.set
CacheSet(key, value) ==
    /\ IF cache_enabled
       THEN /\ l1' = L1Set(l1, key, value, now, TtlSeconds, L1MaxSize)
            /\ \E ok \in BOOLEAN :
                 /\ redis' = L2Set(redis, key, value, ok)
                 /\ last_op' = SetDone(key, value, ok)
       ELSE /\ UNCHANGED <<l1, redis>>
            /\ last_op' = SetDone(key, value, TRUE)
    /\ inval' = [inval EXCEPT ![key] = "no"]
    /\ set_at' = [set_at EXCEPT ![key] = now]
    /\ UNCHANGED <<cache_enabled, l2_connected, now>>
    /\ UNCHANGED orch_vars
    /\ UNCHANGED aux_vars

\* A RedisCache.get that answers absence whatever the store holds.
L2GetAlwaysMisses(store, key, ok) == None

\* RedisCache.get
L2Get(store, key, ok) ==
    IF l2_connected /\ ok THEN RedisGet(store, key, now) ELSE None

\* What the get that completes now is expected to return when it directly
\* follows a completed set of the same key whose TTL has not run out.
ExpectedAfterSet(key) ==
    IF /\ cache_enabled
       /\ last_op.op = "set"
       /\ last_op.key = key
       /\ now - last_op.time < TtlSeconds
    THEN last_op.value
    ELSE None

\* asked: the get went on to RedisCache.get; ok: the round trip worked.
GetDone(key, value, l1_value, asked, ok) ==
    LET trip == asked /\ l2_connected IN
    [NoOp EXCEPT !.op = "get", !.key = key, !.value = value, !.time = now,
                 !.expect = ExpectedAfterSet(key), !.inval = inval[key],
                 !.l1_value = l1_value,
                 !.l2_asked = trip,
                 !.l2_error = trip /\ ~ok,
                 !.l2_value = IF trip /\ ok THEN RedisGet(redis, key, now) ELSE None,
                 !.raised = trip /\ L2Raises(ok)]

\* CacheManager.get
CacheGet(key) ==
    /\ IF ~cache_enabled
       THEN /\ last_op' = GetDone(key, None, None, FALSE, TRUE)
            /\ UNCHANGED l1
       ELSE LET first == L1Get(l1, key, now) IN
            IF first.value # None
            THEN /\ l1' = first.l1
                 /\ last_op' = GetDone(key, first.value, first.value, FALSE, TRUE)
            ELSE \E ok \in BOOLEAN :
                   LET value == L2Get(redis, key, ok) IN
                   /\ l1' = IF value # None
                            THEN L1Set(first.l1, key, value, now, TtlSeconds,
                                       L1MaxSize)
                            ELSE first.l1
                   /\ last_op' = GetDone(key, value, None, TRUE, ok)
    /\ UNCHANGED <<cache_enabled, l2_connected, redis, now, inval, set_at>>
    /\ UNCHANGED orch_vars
    /\ UNCHANGED aux_vars

\* RedisCache.invalidate
L2Invalidate(store, key, ok) ==
    IF l2_connected /\ ok THEN RedisDelete(store, key) ELSE store

\* How an invalidate ended: both tiers were cleaned, the L2 delete raised,
\* or L2 was skipped because it is not connected.
InvalidateOutcome(key, ok) ==
    IF ~l2_connected THEN "l2_skipped"
    ELSE IF ~ok THEN "l2_error"
    ELSE IF key \in LRUKeys(l1.cache) \/ key \in DOMAIN redis THEN "removed"
    ELSE "removed_absent"

\* CacheManager.invalidate
CacheInvalidate(key) ==
    /\ l1' = L1Invalidate(l1, key)
    /\ \E ok \in BOOLEAN :
         /\ redis' = L2Invalidate(redis, key, ok)
         /\ inval' = [inval EXCEPT ![key] = InvalidateOutcome(key, ok)]
         /\ last_op' = [NoOp EXCEPT !.op = "invalidate", !.key = key,
                                    !.l2_error = l2_connected /\ ~ok,
                                    !.raised = l2_connected /\ L2Raises(ok)]
    /\ UNCHANGED <<cache_enabled, l2_connected, now, set_at>>
    /\ UNCHANGED orch_vars
    /\ UNCHANGED aux_vars

\* RedisCache.clear_pattern("privacy:*"): every key of the manager matches
L2ClearPattern(store, ok) ==
    IF l2_connected /\ ok THEN EmptyMap ELSE store

\* CacheManager.clear_all
CacheClearAll ==
    /\ l1' = L1Clear(l1)
    /\ \E ok \in BOOLEAN :
         /\ redis' = L2ClearPattern(redis, ok)
         /\ last_op' = [NoOp EXCEPT !.op = "clear_all",
                                    !.l2_error = l2_connected /\ ~ok,
                                    !.raised = l2_connected /\ L2Raises(ok)]
    /\ UNCHANGED <<cache_enabled, l2_connected, now, inval, set_at>>
    /\ UNCHANGED orch_vars
    /\ UNCHANGED aux_vars

\* The clock advances.
Tick ==
    /\ now < MaxTime
    /\ now' = now + 1
    /\ UNCHANGED <<cache_enabled, l1, l2_connected, redis, last_op, inval, set_at>>
    /\ UNCHANGED orch_vars
    /\ UNCHANGED aux_vars

\* ------------------------------------- CacheManager used by coroutines
\* A call runs without interruption up to the await of its Redis command:
\* MemoryCache's coroutines contain no await of their own.  The coroutine is
\* then suspended until the reply arrives; the server runs the commands of
\* suspended coroutines in any order, and a coroutine can be cancelled while
\* it is suspended, in which case CancelledError, which is no Exception,
\* leaves RedisCache and CacheManager at once.
Suspended(t) == tasks[t].pc \in {"l2_wait", "l2_replied"}

Free(t) == tasks[t].pc \in {"idle", "done", "cancelled"}

L1Value(key) ==
    IF key \in LRUKeys(l1.cache) THEN LRUValue(l1.cache, key) ELSE None

L2Value(key) == RedisGet(redis, key, now)

NewTask(op, key, value) ==
    [IdleTask EXCEPT !.op = op, !.key = key, !.value = value, !.pc = "l2_wait",
                     !.before_l1 = L1Value(key), !.before_l2 = L2Value(key)]

\* CacheManager.set up to await self.redis.setex
SetStart(t, key, value) ==
    /\ Free(t)
    /\ started < MaxCalls
    /\ started' = started + 1
    /\ l1' = L1Set(l1, key, value, now, TtlSeconds, L1MaxSize)
    /\ tasks' = [tasks EXCEPT ![t] =
                   [NewTask("set", key, value) EXCEPT !.overlapped =
                      \E u \in DOMAIN tasks :
                        /\ u # t
                        /\ tasks[u].op = "set"
                        /\ tasks[u].key = key
                        /\ Suspended(u)]]
    /\ UNCHANGED redis
    /\ UNCHANGED not_tasks

\* CacheManager.get up to its return on an L1 hit, or to await
\* self.redis.get on an L1 miss
GetStart(t, key) ==
    /\ Free(t)
    /\ started < MaxCalls
    /\ started' = started + 1
    /\ LET first == L1Get(l1, key, now) IN
       /\ l1' = first.l1
       /\ tasks' = [tasks EXCEPT ![t] =
                      IF first.value # None
                      THEN [NewTask("get", key, None) EXCEPT
                              !.pc = "done", !.returned = first.value]
                      ELSE NewTask("get", key, None)]
    /\ UNCHANGED redis
    /\ UNCHANGED not_tasks

\* CacheManager.invalidate up to await self.redis.delete
InvalidateStart(t, key) ==
    /\ Free(t)
    /\ started < MaxCalls
    /\ started' = started + 1
    /\ l1' = L1Invalidate(l1, key)
    /\ tasks' = [u \in DOMAIN tasks |->
                   IF u = t THEN NewTask("invalidate", key, None)
                   ELSE IF tasks[u].op = "get" /\ tasks[u].key = key /\ Suspended(u)
                        THEN [tasks[u] EXCEPT !.raced = "started"]
                        ELSE tasks[u]]
    /\ UNCHANGED redis
    /\ UNCHANGED not_tasks

\* The Redis server runs the command of a suspended coroutine.
RedisServe(t) ==
    /\ tasks[t].pc = "l2_wait"
    /\ redis' = IF tasks[t].op = "set"
                THEN RedisSetex(redis, tasks[t].key, TtlSeconds, tasks[t].value, now)
                ELSE IF tasks[t].op = "invalidate"
                     THEN RedisDelete(redis, tasks[t].key)
                     ELSE redis
    /\ tasks' = [tasks EXCEPT ![t].pc = "l2_replied",
                              ![t].reply = IF tasks[t].op = "get"
                                           THEN RedisGet(redis, tasks[t].key, now)
                                           ELSE None]
    /\ UNCHANGED <<l1, started>>
    /\ UNCHANGED not_tasks

\* RedisCache.set and CacheManager.set after the reply
SetResume(t) ==
    /\ tasks[t].op = "set"
    /\ tasks[t].pc = "l2_replied"
    /\ tasks' = [tasks EXCEPT ![t].pc = "done"]
    /\ UNCHANGED <<l1, redis, started>>
    /\ UNCHANGED not_tasks

\* RedisCache.get and CacheManager.get after the reply: an L2 hit
\* populates L1
GetResume(t) ==
    /\ tasks[t].op = "get"
    /\ tasks[t].pc = "l2_replied"
    /\ l1' = IF tasks[t].reply # None
             THEN L1Set(l1, tasks[t].key, tasks[t].reply, now, TtlSeconds, L1MaxSize)
             ELSE l1
    /\ tasks' = [tasks EXCEPT ![t].pc = "done", ![t].returned = tasks[t].reply]
    /\ UNCHANGED <<redis, started>>
    /\ UNCHANGED not_tasks

\* RedisCache.invalidate and CacheManager.invalidate after the reply
InvalidateResume(t) ==
    /\ tasks[t].op = "invalidate"
    /\ tasks[t].pc = "l2_replied"
    /\ tasks' = [u \in DOMAIN tasks |->
                   IF u = t THEN [tasks[u] EXCEPT !.pc = "done"]
                   ELSE IF /\ tasks[u].op = "get"
                           /\ tasks[u].key = tasks[t].key
                           /\ Suspended(u)
                           /\ tasks[u].raced = "started"
                        THEN [tasks[u] EXCEPT !.raced = "completed"]
                        ELSE tasks[u]]
    /\ UNCHANGED <<l1, redis, started>>
    /\ UNCHANGED not_tasks

\* task.cancel() on a coroutine suspended in its Redis command
Cancel(t) ==
    /\ Suspended(t)
    /\ tasks' = [tasks EXCEPT ![t].pc = "cancelled"]
    /\ UNCHANGED <<l1, redis, started>>
    /\ UNCHANGED not_tasks

\* ------------------------------------------------- MemoryCache on its own
\* The order of use kept beside the cache: a set and a get hit move the key
\* to the most recently used end, whatever leaves the cache leaves the order.
UsedAfter(order, key, kept) ==
    Append(SelectSeq(order, LAMBDA k : k # key /\ k \in kept), key)

\* MemoryCache.set on a cache of max_size entries
MemSet(key, value) ==
    LET after   == L1Set(l1, key, value, now, TtlSeconds, max_size)
        evicted == LRUKeys(l1.cache) \ LRUKeys(after.cache)
    IN  /\ l1' = after
        /\ used' = UsedAfter(used, key, LRUKeys(after.cache))
        /\ mem_op' = [op |-> "set", key |-> key,
                      full |-> key \notin LRUKeys(l1.cache)
                               /\ Len(l1.cache) = max_size,
                      lru |-> IF used = <<>> THEN None ELSE Head(used),
                      evicted |-> evicted]
        /\ UNCHANGED <<cache_enabled, l2_connected, redis, now, last_op, inval, set_at,
                       max_size>>
        /\ UNCHANGED <<orch_vars, key_vars, seq_vars, sel_vars, unit_vars>>

\* MemoryCache.get
MemGet(key) ==
    LET r == L1Get(l1, key, now) IN
    /\ l1' = r.l1
    /\ used' = IF r.value # None
               THEN UsedAfter(used, key, LRUKeys(r.l1.cache))
               ELSE SelectSeq(used, LAMBDA k : k \in LRUKeys(r.l1.cache))
    /\ mem_op' = [NoMemOp EXCEPT !.op = "get", !.key = key]
    /\ UNCHANGED <<cache_enabled, l2_connected, redis, now, last_op, inval, set_at,
                   max_size>>
    /\ UNCHANGED <<orch_vars, key_vars, seq_vars, sel_vars, unit_vars>>

\* MemoryCache.invalidate
MemInvalidate(key) ==
    /\ l1' = L1Invalidate(l1, key)
    /\ used' = SelectSeq(used, LAMBDA k : k # key)
    /\ mem_op' = [NoMemOp EXCEPT !.op = "invalidate", !.key = key]
    /\ UNCHANGED <<cache_enabled, l2_connected, redis, now, last_op, inval, set_at,
                   max_size>>
    /\ UNCHANGED <<orch_vars, key_vars, seq_vars, sel_vars, unit_vars>>

\* MemoryCache.clear
MemClear ==
    /\ l1' = L1Clear(l1)
    /\ used' = <<>>
    /\ mem_op' = [NoMemOp EXCEPT !.op = "clear"]
    /\ UNCHANGED <<cache_enabled, l2_connected, redis, now, last_op, inval, set_at,
                   max_size>>
    /\ UNCHANGED <<orch_vars, key_vars, seq_vars, sel_vars, unit_vars>>

\* ------------------------------------------------------------ key making
\* A caller makes the cache key of a document: hash_config, then
\* generate_cache_key.
GenerateKey(text, engine_name, config_dict) ==
    /\ Len(fingerprints) < MaxKeys
    /\ fingerprints' =
         Append(fingerprints,
                [text |-> text, engine_name |-> engine_name,
                 config_dict |-> config_dict,
                 key |-> generate_cache_key(text, engine_name,
                                            hash_config(config_dict))])
    /\ UNCHANGED <<orch_vars, cache_vars, mem_vars, seq_vars, sel_vars, unit_vars>>

\* ------------------------------------------ DeterministicReplacer on its own
\* The n-th first-occurrence span of a kind; its text is the number n.
SeqEntity(type, n) == Entity(type, Str(n), 0, Len(Str(n)))

Total(count) == count["PERSON"] + count["ORGANIZATION"] + count["LOCATION"]

\* DeterministicReplacer.replace on a span not seen before
ReplaceFirst(type) ==
    /\ Total(firsts) < MaxSeq
    /\ LET n == firsts[type] + 1
           r == DeterministicReplace(replacement_strategy, SeqEntity(type, n))
       IN  /\ replacement_strategy' = r.st
           /\ firsts' = [firsts EXCEPT ![type] = n]
           /\ seq_op' = [op |-> "replace", type |-> type, ordinal |-> n,
                         rep |-> r.rep, first |-> TRUE]
    /\ UNCHANGED <<orch_rest, cache_vars, mem_vars, key_vars, sel_vars, unit_vars>>

\* DeterministicReplacer.replace on the first span of a kind, seen before
ReplaceAgain(type) ==
    /\ firsts[type] >= 1
    /\ LET r == DeterministicReplace(replacement_strategy, SeqEntity(type, 1))
       IN  /\ replacement_strategy' = r.st
           /\ seq_op' = [op |-> "replace", type |-> type, ordinal |-> 1,
                         rep |-> r.rep, first |-> FALSE]
    /\ UNCHANGED firsts
    /\ UNCHANGED <<orch_rest, cache_vars, mem_vars, key_vars, sel_vars, unit_vars>>

\* ------------------------------------------------------------ WinnerSelector
\* Metrics and weights are counted in hundredths, normalized latencies in
\* ten-thousandths, scores in millionths.
DefaultWeights ==
    [f1_score |-> 50, p95_latency |-> 30, precision |-> 10, recall |-> 10]

\* Weight dictionaries a caller passes instead of the default.
CustomWeights ==
    { [f1_score |-> 0,    p95_latency |-> 100, precision |-> 0,  recall |-> 0],
      [f1_score |-> 50,   p95_latency |-> 0,   precision |-> 50, recall |-> 0],
      [f1_score |-> -100, p95_latency |-> 200, precision |-> 0,  recall |-> 0],
      [f1_score |-> 50,   p95_latency |-> 50,  precision |-> 50, recall |-> 0] }

Abs(x) == IF x < 0 THEN -x ELSE x

\* abs(total_weight - 1.0) > 0.01 raises ValueError
WeightsRejected(w) ==
    Abs(w.f1_score + w.p95_latency + w.precision + w.recall - 100) > 1

EngineIds == {"presidio", "spacy"}
Metrics == {50, 90}
Latencies == {100, 400, 1000}

\* BenchmarkResult
BenchmarkResults ==
    [engine : EngineIds, f1_score : Metrics, precision : Metrics,
     recall : Metrics, p95_latency_ms : Latencies]

ResultLists == UNION { [1..n -> BenchmarkResults] : n \in 0..MaxResults }

\* math.exp(-excess) for an excess given in hundredths of the target
ExpNeg(excess) ==
    CASE excess = 100 -> 3679
      [] excess = 200 -> 1353
      [] excess = 300 -> 498

normalize_latency(latency_ms) ==
    IF latency_ms <= LatencyTargetMs
    THEN 10000
    ELSE LET normalized_excess ==
                 ((latency_ms - LatencyTargetMs) * 100) \div LatencyTargetMs
             score == ExpNeg(normalized_excess)
         IN  IF score > 10000 THEN 10000 ELSE IF score < 0 THEN 0 ELSE score

calculate_score(w, result) ==
    LET f1_component        == result.f1_score * w.f1_score * 100
        latency_component   == normalize_latency(result.p95_latency_ms) * w.p95_latency
        precision_component == result.precision * w.precision * 100
        recall_component    == result.recall * w.recall * 100
    IN  f1_component + latency_component + precision_component + recall_component

\* scores[engine] = score on a dict kept as its items in insertion order: a
\* key already present keeps its place and takes the new value.
DictSet(scores, engine, score) ==
    IF \E i \in DOMAIN scores : scores[i].engine = engine
    THEN [i \in DOMAIN scores |->
            IF scores[i].engine = engine
            THEN [engine |-> engine, score |-> score] ELSE scores[i]]
    ELSE Append(scores, [engine |-> engine, score |-> score])

RECURSIVE ScoresLoop(_, _, _)
ScoresLoop(w, todo, scores) ==
    IF todo = <<>> THEN scores
    ELSE ScoresLoop(w, Tail(todo),
                    DictSet(scores, Head(todo).engine,
                            calculate_score(w, Head(todo))))

\* max(scores, key=scores.get): the first key, in insertion order, whose
\* score no later key exceeds.
MaxKey(scores) ==
    LET i == CHOOSE i \in DOMAIN scores :
                 /\ \A j \in DOMAIN scores : scores[j].score <= scores[i].score
                 /\ \A j \in 1..(i - 1) : scores[j].score < scores[i].score
    IN  scores[i].engine

select_winner(w, result_list) ==
    IF result_list = <<>> THEN "ValueError"
    ELSE MaxKey(ScoresLoop(w, result_list, <<>>))

\* WinnerSelector(weights): weights or the default, then the sum check
NewSelector(given, w) ==
    /\ selector = "none"
    /\ LET chosen == IF given THEN w ELSE DefaultWeights
       IN  /\ weights' = chosen
           /\ selector' = IF WeightsRejected(chosen) THEN "rejected" ELSE "ready"
    /\ UNCHANGED <<bench_results, winner>>
    /\ UNCHANGED <<orch_vars, cache_vars, mem_vars, key_vars, seq_vars, unit_vars>>

\* selector.select_winner(result_list)
SelectWinner(result_list) ==
    /\ selector = "ready"
    /\ winner = None
    /\ bench_results' = result_list
    /\ winner' = select_winner(weights, result_list)
    /\ UNCHANGED <<selector, weights>>
    /\ UNCHANGED <<orch_vars, cache_vars, mem_vars, key_vars, seq_vars, unit_vars>>

\* ------------------------------------------------ fiscal-code validation
\* str.upper() on one character
UpperChar(c) ==
    IF \E i \in DOMAIN LowerLetters : LowerLetters[i] = c
    THEN UpperLetters[CHOOSE i \in DOMAIN LowerLetters : LowerLetters[i] = c]
    ELSE c

Upper(s) == [i \in 1..Len(s) |-> UpperChar(s[i])]

IsUpperLetter(c) == \E i \in DOMAIN UpperLetters : UpperLetters[i] = c
IsLetter(c) == IsUpperLetter(UpperChar(c))
IsDigit(c) == \E i \in DOMAIN DigitChars : DigitChars[i] = c

\* str.index / int(): the 0-based position of c in seq
IndexOf(seq, c) == (CHOOSE i \in DOMAIN seq : seq[i] = c) - 1

\* Positions (1-based) of the letters and of the digits of LLLLLLNNLNNLNNNL
CfLetterPositions == {1, 2, 3, 4, 5, 6, 9, 12, 16}
CfDigitPositions == {7, 8, 10, 11, 13, 14, 15}

\* CFRecognizer.PATTERN with re.IGNORECASE on a whole token
MatchesPattern(s) ==
    /\ Len(s) = 16
    /\ \A i \in CfLetterPositions : IsLetter(s[i])
    /\ \A i \in CfDigitPositions : IsDigit(s[i])

\* CFRecognizer.ODD_MAP: the values of 0..9, then of A..Z
ODD_MAP_DIGITS == <<1, 0, 5, 7, 9, 13, 15, 17, 19, 21>>
ODD_MAP_LETTERS ==
    <<1, 0, 5, 7, 9, 13, 15, 17, 19, 21, 2, 4, 18, 20, 11, 3, 6, 8, 12, 14, 16,
      10, 22, 25, 24, 23>>

\* ODD_MAP.get(char, 0)
OddMapGet(c) ==
    IF IsDigit(c) THEN ODD_MAP_DIGITS[IndexOf(DigitChars, c) + 1]
    ELSE IF IsUpperLetter(c) THEN ODD_MAP_LETTERS[IndexOf(UpperLetters, c) + 1]
    ELSE 0

\* EVEN_MAP.get(char, 0)
EvenMapGet(c) ==
    IF IsDigit(c) THEN IndexOf(DigitChars, c)
    ELSE IF IsUpperLetter(c) THEN IndexOf(UpperLetters, c)
    ELSE 0

\* The sum over cf[:15], from the 0-based index i on
RECURSIVE RecognizerTotal(_, _)
RecognizerTotal(cf, i) ==
    IF i >= 15 THEN 0
    ELSE (IF i % 2 = 0 THEN OddMapGet(cf[i + 1]) ELSE EvenMapGet(cf[i + 1]))
         + RecognizerTotal(cf, i + 1)

\* CFRecognizer._validate_checksum
validate_checksum(cf) ==
    IF Len(cf) # 16 THEN FALSE
    ELSE cf[16] = UpperLetters[(RecognizerTotal(cf, 0) % 26) + 1]

\* CFRecognizer._find_matches on a text that is one token: the match is
\* kept when its upper-cased text passes the checksum.
RecognizerEmits(text) == MatchesPattern(text) /\ validate_checksum(Upper(text))

\* validate_italian_fiscal_code: odd_chars
odd_chars ==
    <<"B","A","F","H","J","N","P","R","T","V","C","E","S","U","L","D","G","I",
      "M","O","Q","K","W","Z","Y","X">>

RECURSIVE FilterTotal(_, _)
FilterTotal(cf, i) ==
    IF i >= 15 THEN 0
    ELSE LET char == cf[i + 1]
         IN  (IF i % 2 = 0
              THEN IF IsDigit(char) THEN ODD_MAP_DIGITS[IndexOf(DigitChars, char) + 1]
                   ELSE IndexOf(odd_chars, char)
              ELSE IF IsDigit(char) THEN IndexOf(DigitChars, char)
                   ELSE IndexOf(UpperLetters, char))
             + FilterTotal(cf, i + 1)

\* validate_italian_fiscal_code
validate_italian_fiscal_code(text) ==
    LET cf == Strip(Upper(text))
    IN  IF Len(cf) # 16 THEN FALSE
        ELSE IF ~(/\ \A i \in CfLetterPositions : IsUpperLetter(cf[i])
                  /\ \A i \in CfDigitPositions : IsDigit(cf[i]))
        THEN FALSE
        ELSE UpperLetters[(FilterTotal(cf, 0) % 26) + 1] = cf[16]

\* The first fifteen characters of the fiscal codes tried, and the characters
\* put in place of the leading ones.
CfBase == <<"R","S","S","M","R","A","8","5","T","1","0","A","5","6","2">>
CfHeadChars == {"A", "B", "R", "S", "r"}

FiscalCodes ==
    { [i \in 1..16 |->
         IF i <= MaxCfVaried THEN head[i]
         ELSE IF i = 16 THEN check ELSE CfBase[i]] :
      head \in [1..MaxCfVaried -> CfHeadChars],
      check \in { UpperLetters[k] : k \in DOMAIN UpperLetters } }

\* One token through the recognizer and, as a FISCAL_CODE span, through
\* validate_entities.
ValidateFiscalCode(text) ==
    /\ ~cf_op.done
    /\ cf_op' = [done |-> TRUE, text |-> text,
                 emitted |-> RecognizerEmits(text),
                 kept |-> validate_italian_fiscal_code(text)]
    /\ UNCHANGED not_cf

\* ------------------------------------------- recognizers: _merge_entities
\* Confidences in hundredths: 80 is the default of the Span extension, 90
\* the legal-entity recognizer's, 95 the fiscal-code and VAT recognizers'.
Confidences == {80, 90, 95}
RecognizerConfidences == {90, 95}

\* A spaCy Span with its character offsets and its _.confidence; from tells
\* the list it came in.
MergeSpans(from, confs) ==
    { [start_char |-> a, end_char |-> b, confidence |-> c, from |-> from] :
        a \in 0..(MaxPos - 1), b \in 1..MaxPos, c \in confs } 

ProperSpans(from, confs) == { e \in MergeSpans(from, confs) : e.start_char < e.end_char }

\* doc.ents: in document order and pairwise disjoint
DocEnts ==
    UNION { { l \in [1..n -> ProperSpans("existing", Confidences)] :
                \A i, j \in 1..n : i < j => l[i].end_char <= l[j].start_char } :
            n \in 0..MaxMerge }

\* The spans a recognizer built from its matches, all at its confidence
NewEnts ==
    UNION { { l \in [1..n -> ProperSpans("new", {c})] : Injective(l) } :
            c \in RecognizerConfidences, n \in 0..MaxMerge }

\* list.sort(key=lambda x: x[0]): stable, ascending
RECURSIVE InsertByStart(_, _)
InsertByStart(sorted, e) ==
    IF sorted = <<>> THEN <<e>>
    ELSE IF e.start_char < Head(sorted).start_char
         THEN <<e>> \o sorted
         ELSE <<Head(sorted)>> \o InsertByStart(Tail(sorted), e)

RECURSIVE SortByStart(_)
SortByStart(l) ==
    IF l = <<>> THEN <<>>
    ELSE InsertByStart(SortByStart(Slice(l, 0, Len(l) - 1)), l[Len(l)])

\* The loop over all_ents that builds filtered
RECURSIVE FilterLoop(_, _)
FilterLoop(filtered, todo) ==
    IF todo = <<>> THEN filtered
    ELSE LET ent == Head(todo)
         IN  IF filtered # <<>> /\ ent.start_char < filtered[Len(filtered)].end_char
             THEN LET prev_ent == filtered[Len(filtered)]
                  IN  IF ent.confidence > prev_ent.confidence
                      THEN FilterLoop([filtered EXCEPT ![Len(filtered)] = ent],
                                      Tail(todo))
                      ELSE FilterLoop(filtered, Tail(todo))
             ELSE FilterLoop(Append(filtered, ent), Tail(todo))

merge_entities(existing, new) == FilterLoop(<<>>, SortByStart(existing \o new))

\* doc.ents = self._merge_entities(list(doc.ents), new_ents)
MergeEntities(existing, new) ==
    /\ ~merge_done
    /\ merge_existing' = existing
    /\ merge_new' = new
    /\ merge_out' = merge_entities(existing, new)
    /\ merge_done' = TRUE
    /\ UNCHANGED not_merge

\* ------------------------------------------------- normalize_text on its own
\* normalize_text applied to the text, then to its own output
Normalize ==
    /\ Len(norm_out) < 2
    /\ norm_out' = Append(norm_out,
                          normalize_text_with(IF norm_out = <<>> THEN norm_text
                                              ELSE norm_out[Len(norm_out)],
                                              norm_opts))
    /\ UNCHANGED <<norm_text, norm_opts>>
    /\ UNCHANGED not_norm

DocumentLists == UNION { [1..n -> BatchDocs] : n \in 0..MaxBatch }

NextDoc ==
    \/ \E text \in Texts : ProcessDocument(text)
    \/ \E i \in 1..MaxDocs : Detect(i)

NextBatch ==
    \/ \E docs \in DocumentLists : \E mc \in 0..MaxConcurrentArg : ProcessBatch(docs, mc)
    \/ \E i \in 1..MaxBatch : Enter(i)
    \/ \E i \in 1..MaxBatch : Detect(i)
    \/ Collect

NextCache ==
    \/ CacheInitialize
    \/ \E key \in Keys : \E value \in Values : CacheSet(key, value)
    \/ \E key \in Keys : CacheGet(key)
    \/ \E key \in Keys : CacheInvalidate(key)
    \/ CacheClearAll
    \/ Tick

NextMem ==
    \/ \E key \in MemKeys : \E value \in Values : MemSet(key, value)
    \/ \E key \in MemKeys : MemGet(key)
    \/ \E key \in MemKeys : MemInvalidate(key)
    \/ MemClear
    \/ Tick

NextKeys ==
    \E text \in KeyTexts : \E engine_name \in EngineNames :
      \E config_dict \in ConfigDicts : GenerateKey(text, engine_name, config_dict)

NextSeq ==
    \/ \E type \in SeqKinds : ReplaceFirst(type)
    \/ \E type \in SeqKinds : ReplaceAgain(type)

NextSelector ==
    \/ \E given \in BOOLEAN, w \in CustomWeights : NewSelector(given, w)
    \/ \E result_list \in ResultLists : SelectWinner(result_list)

NextNorm == Normalize

NextTasks ==
    \/ \E t \in 1..MaxTasks, key \in Keys, value \in Values : SetStart(t, key, value)
    \/ \E t \in 1..MaxTasks, key \in Keys : GetStart(t, key)
    \/ \E t \in 1..MaxTasks, key \in Keys : InvalidateStart(t, key)
    \/ \E t \in 1..MaxTasks : RedisServe(t)
    \/ \E t \in 1..MaxTasks : SetResume(t)
    \/ \E t \in 1..MaxTasks : GetResume(t)
    \/ \E t \in 1..MaxTasks : InvalidateResume(t)
    \/ \E t \in 1..MaxTasks : Cancel(t)

NextCf == \E text \in FiscalCodes : ValidateFiscalCode(text)

NextMerge == \E existing \in DocEnts, new \in NewEnts : MergeEntities(existing, new)

vars == <<orch_vars, cache_vars, aux_vars>>

\* One orchestrator serving process_document calls one after another.
InitDoc == InitOrch("document", Configs) /\ InitCache({TRUE}) /\ InitAux

SpecDoc == InitDoc /\ [][NextDoc]_vars

\* One orchestrator serving one process_batch call.
InitBatch == InitOrch("batch", Configs) /\ InitCache({TRUE}) /\ InitAux

SpecBatch == InitBatch /\ [][NextBatch]_vars

\* One cache manager, enabled or disabled at construction.
InitCacheManager ==
    /\ InitOrch("document", {[strategy |-> "deterministic", consistent |-> TRUE]})
    /\ InitCache(BOOLEAN)
    /\ InitAux

SpecCache == InitCacheManager /\ [][NextCache]_vars

\* The configuration every orchestrator has when only other parts are run.
DefaultConfig == [strategy |-> "deterministic", consistent |-> TRUE]

\* One MemoryCache driven directly.
InitMemoryCache ==
    /\ InitOrch("document", {DefaultConfig})
    /\ InitCache({TRUE})
    /\ InitMem(1..MemMaxSize)
    /\ InitKeys
    /\ InitSeq
    /\ InitSel
    /\ InitUnits

SpecMem == InitMemoryCache /\ [][NextMem]_vars

\* One DeterministicReplacer, built with or without use_letters_for_names.
InitReplacer ==
    /\ config = DefaultConfig
    /\ initialized = FALSE
    /\ primary_engine = "none"
    /\ replacement_strategy \in
         { [NewStrategy EXCEPT !.use_letters_for_names = b] : b \in BOOLEAN }
    /\ api = "document"
    /\ phase = "idle"
    /\ documents = <<>>
    /\ pc = <<>>
    /\ results = <<>>
    /\ max_concurrent = 0
    /\ semaphore = 0
    /\ batch_result = NoBatchResult
    /\ calls = 0
    /\ detect_runs = EmptyMap
    /\ InitCache({TRUE})
    /\ InitAux

SpecSeq == InitReplacer /\ [][NextSeq]_vars

\* A WinnerSelector to be built and asked once.
InitSelector ==
    /\ InitOrch("document", {DefaultConfig})
    /\ InitCache({TRUE})
    /\ InitAux

SpecSelector == InitSelector /\ [][NextSelector]_vars

\* normalize_text applied twice to one text under one option set.
InitNorm ==
    /\ InitOrch("document", {DefaultConfig})
    /\ InitCache({TRUE})
    /\ InitMem({L1MaxSize}) /\ InitKeys /\ InitSeq /\ InitSel
    /\ IdleMerge
    /\ IdleCf
    /\ IdleTasks
    /\ norm_text \in NormTexts
    /\ norm_opts \in NormalizeOptions
    /\ norm_out = <<>>

SpecNorm == InitNorm /\ [][NextNorm]_vars

\* One call of a recognizer's _merge_entities.
InitMerge == InitSelector

SpecMerge == InitMerge /\ [][NextMerge]_vars

\* One fiscal code put to both validators.
InitCf == InitSelector

SpecCf == InitCf /\ [][NextCf]_vars

\* What Redis holds when the process starts: nothing, or entries written by
\* an earlier run or another process.
StoresAtStart ==
    { EmptyMap } \cup
    { RedisSetex(EmptyMap, key, TtlSeconds, value, 0) : key \in Keys, value \in Values }

\* An enabled CacheManager, connected to a healthy Redis, shared by
\* coroutines.
InitTasks ==
    /\ InitOrch("document", {DefaultConfig})
    /\ cache_enabled = TRUE
    /\ l1 = EmptyL1
    /\ l2_connected = TRUE
    /\ redis \in StoresAtStart
    /\ now = 0
    /\ last_op = NoOp
    /\ inval = [k \in Keys |-> "no"]
    /\ set_at = [k \in Keys |-> NeverSet]
    /\ InitAux

SpecTasks == InitTasks /\ [][NextTasks]_vars

\* Cache keys made for several inputs.
InitKeyMaking ==
    /\ InitOrch("document", {DefaultConfig})
    /\ InitCache({TRUE})
    /\ InitAux

SpecKeys == InitKeyMaking /\ [][NextKeys]_vars

\* ------------------------------------------------- properties: pipeline
\* The PipelineResult of the process_document call that completed last.
Completed(i) == i \in DOMAIN results /\ results[i].kind = "result"

\* C1: a completed document's anonymized_text contains no substring equal
\* to the text of a span of the result's span list.
C1_NoLeakage ==
    \A i \in DOMAIN results :
      Completed(i) =>
        \A k \in DOMAIN results[i].entities :
          ~Contains(results[i].anonymized_text, results[i].entities[k].text)

\* str.casefold: full case folding, under which the sharp s becomes "ss".
CaseFoldChar(c) == IF c = "ß" THEN <<"s", "s">> ELSE <<LowerChar(c)>>

RECURSIVE CaseFold(_)
CaseFold(s) == IF s = <<>> THEN <<>> ELSE CaseFoldChar(Head(s)) \o CaseFold(Tail(s))

\* C2: under the consistency wrapper two spans of a document with the same
\* kind and the same case-folded text get the identical placeholder.
C2_StableMapping ==
    config.consistent =>
      \A i \in DOMAIN results :
        Completed(i) =>
          \A a, b \in DOMAIN results[i].replaced :
            LET x == results[i].replaced[a]
                y == results[i].replaced[b]
            IN  (x.entity.type = y.entity.type
                 /\ CaseFold(x.entity.text) = CaseFold(y.entity.text))
                => x.rep = y.rep

\* C3: process_document never raises; a failure in any stage, initialization
\* included, comes back as a PipelineResult with success false whose
\* anonymized_text is the original input.
C3_NeverRaises ==
    api = "document" =>
      \A i \in DOMAIN results :
        /\ results[i].kind # "exception"
        /\ (Completed(i) /\ ~results[i].success)
           => results[i].anonymized_text = documents[i].text

\* C7: the consistency maps are per document: a document's placeholders are
\* those replace_all gives it on a strategy that was reset at its start.
C7_PerDocumentMaps ==
    \A i \in DOMAIN results :
      (Completed(i) /\ results[i].success /\ results[i].entities # <<>>) =>
        results[i].anonymized_text =
          replace_all(config, NewStrategy, normalize_text(documents[i].text),
                      results[i].entities).text

\* The same call made on an orchestrator that has the same configuration and
\* has processed nothing before, the engine returning the same spans.
ReferenceCall(i) ==
    Rewrite(config, NewStrategy, i, documents[i].text,
            normalize_text(documents[i].text), results[i].entities).result

\* C15: with the deterministic strategy two calls with the same normalized
\* text, recognizer and configuration give the same anonymized text,
\* whatever was processed before either of them.
C15_Determinism ==
    config.strategy = "deterministic" =>
      \A i \in DOMAIN results :
        (Completed(i) /\ results[i].success)
          => results[i].anonymized_text = ReferenceCall(i).anonymized_text

C18_FallbackPolicy ==
    \A i \in DOMAIN results :
      (Completed(i) /\ results[i].primary = "failed")
        => results[i].fallback_triggered

\* C8: detection runs at most once for the same document; a repeated
\* document is served from the cache.
C8_NoDuplicatedWork ==
    \A text \in DOMAIN detect_runs : detect_runs[text] <= 1

\* ---------------------------------------------------- properties: batch
\* C4: the results of process_batch follow the input order: results[i] is
\* the result of documents[i].
C4_BatchOrder ==
    phase = "returned" =>
      \A i \in DOMAIN documents :
        /\ i \in DOMAIN batch_result.results
        /\ batch_result.results[i].task = i

\* C5: process_batch returns one result per input document, a failed
\* PipelineResult standing at the position of every document that failed.
C5_BatchOneToOne ==
    phase = "returned" =>
      /\ Len(batch_result.results) = Len(documents)
      /\ \A i \in DOMAIN results :
           (results[i].kind = "exception" \/ ~results[i].success) =>
             /\ i \in DOMAIN batch_result.results
             /\ ~batch_result.results[i].success

\* process_with_semaphore tasks that are inside process_document
InFlight == { i \in DOMAIN pc : pc[i] = "detecting" }

\* C6: never more than max_concurrent documents are inside
\* process_document at once.
C6_BoundedParallelism ==
    (api = "batch" /\ phase = "running") => Cardinality(InFlight) <= max_concurrent

\* max_concurrent documents are inside process_document and a further task
\* is held at the semaphore.
C6_Witness ==
    /\ api = "batch"
    /\ phase = "running"
    /\ Cardinality(InFlight) = max_concurrent
    /\ \E i \in DOMAIN pc : pc[i] = "pending" /\ documents[i].has_text

\* ---------------------------------------------------- properties: cache
\* C9: on an enabled CacheManager a get(K) that directly follows a completed
\* set(K, V), with no TTL expiry in between, returns V, whether L2 is
\* connected, was never connected, or fails.
C9_ReadYourWrite ==
    (last_op.op = "get" /\ last_op.expect # None) => last_op.value = last_op.expect

\* A get returned the value of the set just before it while L2 held nothing.
C9_Witness ==
    /\ last_op.op = "get"
    /\ last_op.expect # None
    /\ last_op.value = last_op.expect
    /\ last_op.key \notin DOMAIN redis

C12_TieredGet ==
    (last_op.op = "get" /\ cache_enabled) =>
      /\ last_op.l1_value # None
         => (last_op.value = last_op.l1_value /\ ~last_op.l2_asked)
      /\ (last_op.l1_value = None /\ last_op.l2_value # None)
         => /\ last_op.value = last_op.l2_value
            /\ L1Get(l1, last_op.key, last_op.time).value = last_op.l2_value
      /\ (last_op.l1_value = None /\ last_op.l2_value = None)
         => last_op.value = None

\* A get missed L1, hit L2 and left the value in L1.
C12_Witness ==
    /\ last_op.op = "get"
    /\ last_op.l1_value = None
    /\ last_op.l2_value # None
    /\ last_op.value = last_op.l2_value
    /\ last_op.key \in LRUKeys(l1.cache)

\* C13: a set that inserts a new key into an L1 holding max_size entries
\* removes exactly one entry, the least recently used one, a set and a get
\* hit both counting as a use.
C13_LRUEviction ==
    (mem_op.op = "set" /\ mem_op.full) => mem_op.evicted = {mem_op.lru}

\* A full cache of two entries lost its least recently used entry to a set,
\* and the entry it kept had been written before the one it lost.
C13_Witness ==
    /\ mem_op.op = "set"
    /\ mem_op.full
    /\ max_size = 2
    /\ mem_op.evicted = {mem_op.lru}
    /\ \E k \in LRUKeys(l1.cache) :
         k # mem_op.key /\ l1.expiry[k] < l1.expiry[mem_op.key]
                        /\ mem_op.lru \in DOMAIN l1.expiry
                        /\ l1.expiry[k] < l1.expiry[mem_op.lru]

\* C14: two inputs that differ in the text, in the recognizer id or in the
\* recognizer configuration get different cache keys.
C14_FingerprintDistinct ==
    \A i, j \in DOMAIN fingerprints :
      (\/ fingerprints[i].text # fingerprints[j].text
       \/ fingerprints[i].engine_name # fingerprints[j].engine_name
       \/ fingerprints[i].config_dict # fingerprints[j].config_dict)
      => fingerprints[i].key # fingerprints[j].key

\* The placeholder the n-th first-occurrence span of kind K is to get: K_A,
\* ..., K_Z, K_27, ... with letters for PERSON and ORGANIZATION, K_1, K_2,
\* ... otherwise, K written as the value of the kind.
ExpectedPlaceholder(use_letters, type, n) ==
    TypeValue(type) \o <<"_">> \o
      (IF use_letters /\ type \in {"PERSON", "ORGANIZATION"} /\ n <= 26
       THEN <<UpperLetters[n]>> ELSE Str(n))

Returned == winner \in EngineIds

DistinctEngines(result_list) ==
    \A i, j \in DOMAIN result_list : result_list[i].engine = result_list[j].engine => i = j

\* a is dominated by b: lower F1, higher p95 latency, lower precision and recall
Dominated(a, b) ==
    /\ a.f1_score < b.f1_score
    /\ a.p95_latency_ms > b.p95_latency_ms
    /\ a.precision < b.precision
    /\ a.recall < b.recall

\* C19: whatever weights the selector accepted, the engine select_winner
\* returns is not dominated by another engine of the list.
C19_Monotonicity ==
    (Returned /\ DistinctEngines(bench_results)) =>
      \A i, j \in DOMAIN bench_results :
        bench_results[i].engine = winner =>
          ~Dominated(bench_results[i], bench_results[j])

\* Lexicographic order of the engine ids.
EngineIdBefore(a, b) == a = "presidio" /\ b = "spacy"

\* a comes before b: higher score, then higher F1, then lower p95 latency,
\* then the smaller engine id.
Preferred(w, a, b) ==
    LET sa == calculate_score(w, a)
        sb == calculate_score(w, b)
    IN  \/ sa > sb
        \/ /\ sa = sb
           /\ \/ a.f1_score > b.f1_score
              \/ /\ a.f1_score = b.f1_score
                 /\ \/ a.p95_latency_ms < b.p95_latency_ms
                    \/ /\ a.p95_latency_ms = b.p95_latency_ms
                       /\ EngineIdBefore(a.engine, b.engine)

\* C20: select_winner returns the engine of maximal score, ties going to the
\* higher F1, then the lower p95 latency, then the smaller engine id, in
\* whatever order the results are listed.
C20_TieBreaking ==
    (Returned /\ DistinctEngines(bench_results)) =>
      \A i, j \in DOMAIN bench_results :
        (bench_results[i].engine = winner /\ j # i) =>
          Preferred(weights, bench_results[i], bench_results[j])

\* C21: normalizing an already normalized text, under the same options,
\* changes nothing.
C21_NormalizeIdempotent ==
    Len(norm_out) = 2 => norm_out[2] = norm_out[1]

\* C22: the documents of a batch share no strategy state: whatever the
\* interleaving of the tasks, each document gets the placeholders it would
\* get if it were processed alone.
C22_StrategyIsolation ==
    api = "batch" =>
      \A i \in DOMAIN results :
        (Completed(i) /\ results[i].success /\ Cardinality(DOMAIN documents) > 1)
          => results[i].anonymized_text = ReferenceCall(i).anonymized_text

\* C23: any two spans of the list that detection hands to the rewriter are
\* disjoint: one ends at or before the start of the other.
C23_NonOverlap ==
    \A i \in DOMAIN results :
      Completed(i) =>
        \A j, k \in DOMAIN results[i].entities :
          j # k =>
            LET a == results[i].entities[j]
                b == results[i].entities[k]
            IN  a.end <= b.start \/ b.end <= a.start

\* ------------------------------------------------ properties: recognizers
Overlap(a, b) == a.start_char < b.end_char /\ b.start_char < a.end_char

InSeq(e, l) == \E i \in DOMAIN l : l[i] = e

\* C29: a span of either input list is missing from the output of
\* _merge_entities only if a span of the output overlaps it.
C29_MergeKeepsNonConflicting ==
    merge_done =>
      \A e \in { merge_existing[i] : i \in DOMAIN merge_existing }
               \cup { merge_new[i] : i \in DOMAIN merge_new } :
        InSeq(e, merge_out) \/ \E k \in DOMAIN merge_out : Overlap(e, merge_out[k])

\* C28: validate_italian_fiscal_code accepts a 16-character string exactly
\* when the recognizer's checksum validation accepts it, so no FISCAL_CODE
\* span the recognizer emits is dropped by validate_entities.
C28_ValidatorAgreement ==
    cf_op.done => (cf_op.kept <=> cf_op.emitted)

\* C30: every key of the expiry map of a MemoryCache is a key of its LRU
\* store, so the expiry map never holds more than max_size entries.
C30_ExpiryBounded ==
    /\ DOMAIN l1.expiry \subseteq LRUKeys(l1.cache)
    /\ Cardinality(DOMAIN l1.expiry) <= max_size

\* C25: a get(K) that returns a value completes no later than ttl_seconds
\* after the last set(K): a value is never served past its time to live
\* unless the key was set again.
C25_TtlBound ==
    (last_op.op = "get" /\ last_op.value # None /\ set_at[last_op.key] # NeverSet)
      => last_op.time <= set_at[last_op.key] + TtlSeconds

\* --------------------------------------- properties: concurrent cache use
\* C24: a set(K, V) cancelled while suspended leaves K written with V in
\* both tiers or in neither, each tier then holding what it held before.
C24_AtomicWriteUnderCancel ==
    \A t \in DOMAIN tasks :
      (started = 1 /\ tasks[t].op = "set" /\ tasks[t].pc = "cancelled") =>
        \/ L1Value(tasks[t].key) = tasks[t].value /\ L2Value(tasks[t].key) = tasks[t].value
        \/ /\ L1Value(tasks[t].key) = tasks[t].before_l1
           /\ L2Value(tasks[t].key) = tasks[t].before_l2

\* What a get(K) made now, alone, returns.
LaterGet(key) ==
    IF L1Get(l1, key, now).value # None THEN L1Get(l1, key, now).value
    ELSE L2Value(key)

\* C26: when an invalidate(K) began and ended while a get(K) was suspended
\* between its L1 miss and its L1 populate, then once both are done K is not
\* in L1 and a get(K) returns absence.
C26_NoResurrection ==
    \A t, u \in DOMAIN tasks :
      ( /\ started = 2
        /\ tasks[t].op = "get" /\ tasks[t].pc = "done" /\ tasks[t].raced = "completed"
        /\ tasks[u].op = "invalidate" /\ tasks[u].pc = "done"
        /\ tasks[u].key = tasks[t].key )
      => /\ tasks[t].key \notin LRUKeys(l1.cache)
         /\ LaterGet(tasks[t].key) = None

\* C27: once two set calls for the same key that ran side by side are both
\* done, L1 and L2 hold the same value for the key.
C27_TierAgreement ==
    \A t, u \in DOMAIN tasks :
      ( /\ started = 2
        /\ t # u
        /\ tasks[t].op = "set" /\ tasks[t].pc = "done"
        /\ tasks[u].op = "set" /\ tasks[u].pc = "done"
        /\ tasks[u].key = tasks[t].key
        /\ tasks[u].overlapped )
      => L1Value(tasks[t].key) = L2Value(tasks[t].key)

====
